---- MODULE Spec2Model ----
(***************************************************************************)
(* The match-and-resolve pipeline of prompt_exp_fixed.ipynb: the notebook  *)
(* cells run top to bottom as one linear script.                           *)
(*                                                                         *)
(* Strings are sequences of tokens.  A token is one of                     *)
(*   - the five-letter literal "Query" (and its case variants "query",     *)
(*     "QUERY", which are different tokens),                               *)
(*   - one whitespace character " ", "\t", "\n",                           *)
(*   - one decimal digit "0" .. "9",                                       *)
(*   - the character ":" or some other character "x",                      *)
(*   - a whole dataset text ("a", "b", "c") or reference code ("", "code"),*)
(*     or one of the two fixed header sentences of the prompt.             *)
(* Python sequences are 0-based; At(s, i) reads s[i].                      *)
(***************************************************************************)
EXTENDS Integers, Sequences, FiniteSets, TLC

\* ---------------------------------------------------------------- bounds
MaxColl == 4
MaxWide == 11
MaxReplyLen == 6
MaxTokLen == 4

\* ---------------------------------------------------------------- values
None == -1
Undefined == -2
UnsetStr == <<"<undefined>">>

Texts == {"a", "b", "c"}
Codes == {"", "code"}
DigitSeq == <<"0", "1", "2", "3", "4", "5", "6", "7", "8", "9">>
Digits == {DigitSeq[i] : i \in 1..10}
Whitespace == {" ", "\t", "\n"}
UpstreamErrors == {"AuthenticationError", "RateLimitError"}

At(s, i) == s[i + 1]

DigitVal(c) == (CHOOSE i \in 1..10 : DigitSeq[i] = c) - 1

\* str(n) for n >= 0, as used by the f-string of build_comparison_prompt
RECURSIVE str(_)
str(n) == IF n < 10 THEN <<DigitSeq[n + 1]>>
          ELSE str(n \div 10) \o <<DigitSeq[(n % 10) + 1]>>

\* int(s) for a non-empty run of decimal digits
RECURSIVE int(_)
int(s) == IF Len(s) = 0 THEN 0
          ELSE 10 * int(SubSeq(s, 1, Len(s) - 1)) + DigitVal(s[Len(s)])

\* the greedy \d+ : the longest run of digits of t starting at (1-based) p
RECURSIVE DigitRun(_, _)
DigitRun(t, p) == IF p <= Len(t) /\ t[p] \in Digits
                    THEN <<t[p]>> \o DigitRun(t, p + 1)
                    ELSE <<>>

\* ------------------------------------------------- Selection Extractor
\* re.search(r'Query (\d+)', text) tried at position p, then p+1, ...
RECURSIVE SearchFrom(_, _)
SearchFrom(t, p) ==
    IF p + 2 > Len(t) THEN None
    ELSE IF t[p] = "Query" /\ t[p + 1] = " " /\ t[p + 2] \in Digits
         THEN int(DigitRun(t, p + 2))
         ELSE SearchFrom(t, p + 1)

\* mutant: the last "Query N" of the text wins (re.findall(...)[-1])
RECURSIVE SearchBack(_, _)
SearchBack(t, p) ==
    IF p < 1 THEN None
    ELSE IF p + 2 <= Len(t) /\ t[p] = "Query" /\ t[p + 1] = " " /\ t[p + 2] \in Digits
         THEN int(DigitRun(t, p + 2))
         ELSE SearchBack(t, p - 1)

extract_query_number_last(response_text) == SearchBack(response_text, Len(response_text))

\* mutant: no match yields 0 instead of None
extract_query_number_zero(response_text) ==
    IF SearchFrom(response_text, 1) = None THEN 0 ELSE SearchFrom(response_text, 1)

\* mutant: r'Query\s+(\d+)' -- any run of whitespace between literal and digits
RECURSIVE SkipWs(_, _)
SkipWs(t, p) == IF p <= Len(t) /\ t[p] \in Whitespace THEN SkipWs(t, p + 1) ELSE p

RECURSIVE SearchWsFrom(_, _)
SearchWsFrom(t, p) ==
    IF p + 2 > Len(t) THEN None
    ELSE IF /\ t[p] = "Query"
            /\ t[p + 1] \in Whitespace
            /\ SkipWs(t, p + 1) <= Len(t)
            /\ t[SkipWs(t, p + 1)] \in Digits
         THEN int(DigitRun(t, SkipWs(t, p + 1)))
         ELSE SearchWsFrom(t, p + 1)

extract_query_number_ws(response_text) == SearchWsFrom(response_text, 1)

extract_query_number(response_text) == SearchFrom(response_text, 1)

\* ------------------------------------------------------ Prompt Builder
Header(code) == <<"The following code is provided:\n\n", code, "\n\n",
                  "Please identify which query in the list below is the most similar to the code in terms of purpose. The options are:\n\n">>

\* one iteration of the loop: content += f"Query {i+1}: {example['query']}\n"
CandidateLine(i, query) == <<"Query", " ">> \o str(i + 1) \o <<":", " ", query, "\n">>

\* mutant: the label is the 0-based loop index
CandidateLine0(i, query) == <<"Query", " ">> \o str(i) \o <<":", " ", query, "\n">>

RECURSIVE AppendLines(_, _, _)
AppendLines(content, subset_examples, i) ==
    IF i >= Len(subset_examples) THEN content
    ELSE AppendLines(content \o CandidateLine(i, At(subset_examples, i)),
                     subset_examples, i + 1)

RECURSIVE AppendLines0(_, _, _)
AppendLines0(content, subset_examples, i) ==
    IF i >= Len(subset_examples) THEN content
    ELSE AppendLines0(content \o CandidateLine0(i, At(subset_examples, i)),
                      subset_examples, i + 1)

build_comparison_prompt_label0(code, subset_examples) ==
    AppendLines0(Header(code), subset_examples, 0)

build_comparison_prompt(code, subset_examples) ==
    AppendLines(Header(code), subset_examples, 0)

\* ---------------------------------------------------- Position Resolver
\* data.select(range(start, end))
select(rows, start, end) == SubSeq(rows, start + 1, end)

\* subset[key] of a datasets.Dataset: a key in -size .. size-1 is taken
\* modulo size, any other key raises IndexError
KeyValid(key, size) == ~((key < 0 /\ key + size < 0) \/ key >= size)
Row(rows, key) == At(rows, key % Len(rows))

\* paragraphs.index(reference_paragraph), scanning from i; ValueError -> None
RECURSIVE IndexFrom(_, _, _)
IndexFrom(paragraphs, reference_paragraph, i) ==
    IF i >= Len(paragraphs) THEN None
    ELSE IF At(paragraphs, i) = reference_paragraph THEN i
         ELSE IndexFrom(paragraphs, reference_paragraph, i + 1)

\* mutant: the last occurrence (a scan from the end)
RECURSIVE IndexBack(_, _, _)
IndexBack(paragraphs, reference_paragraph, i) ==
    IF i < 0 THEN None
    ELSE IF At(paragraphs, i) = reference_paragraph THEN i
         ELSE IndexBack(paragraphs, reference_paragraph, i - 1)

find_paragraph_index_last(paragraphs, reference_paragraph) ==
    IndexBack(paragraphs, reference_paragraph, Len(paragraphs) - 1)

\* mutant: a 1-based position
find_paragraph_index_1based(paragraphs, reference_paragraph) ==
    IF IndexFrom(paragraphs, reference_paragraph, 0) = None THEN None
    ELSE IndexFrom(paragraphs, reference_paragraph, 0) + 1

\* mutant: the scan skips the first row
find_paragraph_index_skip0(paragraphs, reference_paragraph) ==
    IndexFrom(paragraphs, reference_paragraph, 1)

find_paragraph_index(paragraphs, reference_paragraph) ==
    IndexFrom(paragraphs, reference_paragraph, 0)

\* ---------------------------------------------------------------- state
VARIABLES pc, data, SUBSET_START, SUBSET_END, llm_reply,
          code_string, subset, content, open_gen, query_number,
          matched_query_text, index_position, error, upstream, stdout, ran

vars == <<pc, data, SUBSET_START, SUBSET_END, llm_reply,
          code_string, subset, content, open_gen, query_number,
          matched_query_text, index_position, error, upstream, stdout, ran>>

env == <<data, SUBSET_START, SUBSET_END, llm_reply>>

\* all token strings over alphabet A of length at most n
Strings(A, n) == UNION {[1..k -> A] : k \in 0..n}

\* every short collection, and long ones (windows of ten and more candidates)
\* that repeat a, b, c from some rotation
TextSeq == <<"a", "b", "c">>
ShortCollections == UNION {[1..k -> Texts] : k \in 1..MaxColl}
WideCollections ==
    {[i \in 1..n |-> TextSeq[((i + r) % 3) + 1]] : n \in (MaxColl + 1)..MaxWide, r \in 0..2}
Collections == ShortCollections \cup WideCollections

\* the answers of the hosted model used to exercise the resolver
PipeReplies == {<<"Query", " ">> \o str(n) : n \in 0..(MaxWide + 1)} \cup {<<"x">>}

FirstAlphabet == {"Query", " ", "3", "7", "x"}
TokenAlphabet == {"Query", "query", "QUERY", " ", "\t", "\n", "3", "x"}

InitWith(Rows, Replies) ==
    /\ data \in Rows
    /\ SUBSET_START \in 0..Len(data)
    /\ SUBSET_END \in SUBSET_START..Len(data)
    /\ llm_reply \in Replies
    /\ pc = "select"
    /\ code_string = "<undefined>"
    /\ subset = UnsetStr
    /\ content = UnsetStr
    /\ open_gen = UnsetStr
    /\ query_number = Undefined
    /\ matched_query_text = "<undefined>"
    /\ index_position = Undefined
    /\ error = "none"
    /\ upstream = "none"
    /\ stdout = <<>>
    /\ ran = {}

Init == InitWith(Collections, PipeReplies)

InitFirst ==
    /\ InitWith({<<"a", "b", "c", "a">>}, Strings(FirstAlphabet, MaxReplyLen))
    /\ SUBSET_START = 1
    /\ SUBSET_END = 4

InitToken ==
    /\ InitWith({<<"a", "b", "c", "a">>}, Strings(TokenAlphabet, MaxTokLen))
    /\ SUBSET_START = 1
    /\ SUBSET_END = 4

\* ---------------------------------------------------------------- cells
\* cell 5: the reference code and the candidate window
SelectCell ==
    /\ pc = "select"
    /\ \E answer \in Codes : code_string' = answer
    /\ subset' = select(data, SUBSET_START, SUBSET_END)
    /\ stdout' = stdout \o <<"reference code", "subset selected">>
    /\ ran' = ran \cup {"select"}
    /\ pc' = "build"
    /\ UNCHANGED <<env, content, open_gen, query_number, matched_query_text,
                   index_position, error, upstream>>

\* cell 6: messages = [{"role": "user", "content": build_comparison_prompt(...)}]
PromptCell ==
    /\ pc = "build"
    /\ content' = build_comparison_prompt(code_string, subset)
    /\ ran' = ran \cup {"build"}
    /\ pc' = "invoke"
    /\ UNCHANGED <<env, code_string, subset, open_gen, query_number,
                   matched_query_text, index_position, error, upstream, stdout>>

\* cell 7, openai.chat.completions.create returns
CallReturns ==
    /\ pc = "invoke"
    /\ open_gen' = llm_reply
    /\ stdout' = stdout \o <<"querying", "llm response">>
    /\ ran' = ran \cup {"invoke"}
    /\ pc' = "extract"
    /\ UNCHANGED <<env, code_string, subset, content, query_number,
                   matched_query_text, index_position, error, upstream>>

\* mutant: the failure is caught and the pipeline goes on with an empty answer
CallRaisesCaught ==
    /\ pc = "invoke"
    /\ \E e \in UpstreamErrors : upstream' = e
    /\ open_gen' = <<>>
    /\ stdout' = stdout \o <<"querying">>
    /\ ran' = ran \cup {"invoke"}
    /\ pc' = "extract"
    /\ UNCHANGED <<env, code_string, subset, content, query_number,
                   matched_query_text, index_position, error>>

\* cell 7, openai.chat.completions.create raises: nothing catches it
CallRaises ==
    /\ pc = "invoke"
    /\ \E e \in UpstreamErrors : upstream' = e /\ error' = e
    /\ stdout' = stdout \o <<"querying">>
    /\ ran' = ran \cup {"invoke"}
    /\ pc' = "raised"
    /\ UNCHANGED <<env, code_string, subset, content, open_gen, query_number,
                   matched_query_text, index_position>>

\* cell 8
ExtractCell ==
    /\ pc = "extract"
    /\ query_number' = extract_query_number(open_gen)
    /\ stdout' = stdout \o (IF query_number' # None THEN <<"closest query">>
                                                   ELSE <<"no query number">>)
    /\ ran' = ran \cup {"extract"}
    /\ pc' = "resolve"
    /\ UNCHANGED <<env, code_string, subset, content, open_gen,
                   matched_query_text, index_position, error, upstream>>

\* cell 9
ResolveCell ==
    /\ pc = "resolve"
    /\ IF query_number # None
       THEN IF ~KeyValid(query_number - 1, Len(subset))
            THEN /\ error' = "IndexError"
                 /\ pc' = "raised"
                 /\ ran' = ran \cup {"lookup"}
                 /\ UNCHANGED <<matched_query_text, index_position, stdout>>
            ELSE /\ matched_query_text' = Row(subset, query_number - 1)
                 /\ index_position' = find_paragraph_index(data, matched_query_text')
                 /\ stdout' = stdout \o <<"matched query">> \o
                        (IF index_position' # None THEN <<"found at index", "full prompt">>
                                                   ELSE <<"not found">>)
                 /\ ran' = ran \cup {"lookup", "search"}
                 /\ pc' = "done"
                 /\ UNCHANGED error
       ELSE /\ stdout' = stdout \o <<"could not match">>
            /\ ran' = ran \cup {"resolve"}
            /\ pc' = "done"
            /\ UNCHANGED <<matched_query_text, index_position, error>>
    /\ UNCHANGED <<env, code_string, subset, content, open_gen, query_number, upstream>>

Next ==
    \/ SelectCell
    \/ PromptCell
    \/ CallReturns
    \/ CallRaises
    \/ ExtractCell
    \/ ResolveCell

Spec == Init /\ [][Next]_vars
SpecFirst == InitFirst /\ [][Next]_vars
SpecToken == InitToken /\ [][Next]_vars

\* ------------------------------------------------------------ properties
\* The pattern of the extractor, stated position by position.
MatchAt(t, p) ==
    /\ p + 2 <= Len(t)
    /\ t[p] = "Query"
    /\ t[p + 1] = " "
    /\ t[p + 2] \in Digits

MatchPositions(t) == {p \in 1..Len(t) : MatchAt(t, p)}

Least(S) == CHOOSE m \in S : \A n \in S : m <= n

RECURSIVE Pow10(_)
Pow10(n) == IF n = 0 THEN 1 ELSE 10 * Pow10(n - 1)

\* the last position of the digit run that starts at d
RunEnd(t, d) ==
    CHOOSE q \in d..Len(t) :
        /\ \A j \in d..q : t[j] \in Digits
        /\ q = Len(t) \/ t[q + 1] \notin Digits

\* the base-10 value of the digits t[d..q], most significant first
RECURSIVE Decimal(_, _, _)
Decimal(t, d, q) ==
    IF d > q THEN 0 ELSE DigitVal(t[d]) * Pow10(q - d) + Decimal(t, d + 1, q)

RunValue(t, d) == Decimal(t, d, RunEnd(t, d))

Extracted == "extract" \in ran
Looked == "lookup" \in ran
Searched == "search" \in ran
K == Len(subset)
NoDuplicates(rows) == \A i, j \in 1..Len(rows) : i # j => rows[i] # rows[j]

\* C1 (as claimed): for a window of size K >= 1, selection 0 and K+1 both
\* fail with an out-of-range error, nothing is retrieved and no absolute
\* index is produced; every selection in 1..K retrieves window[selection - 1].
C1_ResolverBounds ==
    (pc \in {"done", "raised"} /\ Extracted /\ query_number # None /\ K >= 1) =>
        /\ query_number \in {0, K + 1} =>
              /\ pc = "raised"
              /\ error = "IndexError"
              /\ matched_query_text = "<undefined>"
              /\ index_position = Undefined
        /\ query_number \in 1..K =>
              /\ pc = "done"
              /\ matched_query_text = At(subset, query_number - 1)

\* C2: when the answer holds two or more "Query <digits>" tokens, the
\* extracted number is the integer of the leftmost one.
C2_FirstMatch ==
    (Extracted /\ Cardinality(MatchPositions(open_gen)) >= 2) =>
        query_number = RunValue(open_gen, Least(MatchPositions(open_gen)) + 2)

C2_Witness ==
    /\ Extracted
    /\ open_gen = <<"Query", " ", "3", "Query", " ", "7">>
    /\ query_number = 3

\* C3: an answer with no "Query <digits>" token extracts None; the pipeline
\* then completes without raising, does no window lookup and no collection
\* search, and yields no resolved match.
C3_NoMatch ==
    (Extracted /\ MatchPositions(open_gen) = {}) =>
        /\ query_number = None
        /\ pc \in {"resolve", "done"}
        /\ error = "none"
        /\ ~Looked /\ ~Searched
        /\ matched_query_text = "<undefined>"
        /\ index_position = Undefined

C3_Witness ==
    /\ pc = "done"
    /\ MatchPositions(open_gen) = {}
    /\ Len(open_gen) >= 3
    /\ query_number = None
    /\ stdout[Len(stdout)] = "could not match"

\* C4: with no duplicate text in the collection, an in-window selection k of
\* the window [start, end) resolves to absolute index start + (k - 1) and to
\* the text stored there.
C4_RoundTrip ==
    (pc = "done" /\ query_number \in 1..K /\ NoDuplicates(data)) =>
        /\ index_position = SUBSET_START + (query_number - 1)
        /\ matched_query_text = At(data, SUBSET_START + query_number - 1)

C4_Witness ==
    /\ pc = "done"
    /\ NoDuplicates(data)
    /\ SUBSET_START >= 1
    /\ query_number \in 2..K
    /\ index_position = SUBSET_START + query_number - 1

\* C5: once the model call has failed the run is halted with that very
\* failure: no answer, no selection index, no resolved match, and neither the
\* extractor nor the resolver has run; the call was made once.
C5_UpstreamFailure ==
    upstream # "none" =>
        /\ pc = "raised"
        /\ error = upstream
        /\ open_gen = UnsetStr
        /\ query_number = Undefined
        /\ matched_query_text = "<undefined>"
        /\ index_position = Undefined
        /\ ran \cap {"extract", "resolve", "lookup", "search"} = {}
        /\ Cardinality({i \in 1..Len(stdout) : stdout[i] = "querying"}) = 1

C5_Witness ==
    /\ pc = "raised"
    /\ upstream = "RateLimitError"
    /\ error = "RateLimitError"
    /\ K >= 1

\* C6 (as claimed): with an empty candidate sequence the builder fails with an
\* invalid-input error and the model is never called.
C6_EmptyCandidates ==
    ("build" \in ran /\ K = 0) =>
        /\ pc = "raised"
        /\ error = "InvalidInputError"
        /\ "invoke" \notin ran

\* the lines of s, each ended by a "\n" token (cur is the line being read)
RECURSIVE SplitLines(_, _, _)
SplitLines(s, i, cur) ==
    IF i > Len(s) THEN (IF cur = <<>> THEN <<>> ELSE <<cur>>)
    ELSE IF s[i] = "\n" THEN <<cur>> \o SplitLines(s, i + 1, <<>>)
         ELSE SplitLines(s, i + 1, Append(cur, s[i]))

CandidateLines == SplitLines(content, 5, <<>>)

IsLabelled(line, n, text) ==
    /\ Len(line) >= 6
    /\ line[1] = "Query" /\ line[2] = " "
    /\ \A j \in 3..(Len(line) - 3) : line[j] \in Digits
    /\ Decimal(line, 3, Len(line) - 3) = n
    /\ line[Len(line) - 2] = ":" /\ line[Len(line) - 1] = " "
    /\ line[Len(line)] = text

\* C7: for a window of size K >= 1 the prompt holds the reference code and
\* then exactly K candidate lines, the i-th (0-based) labelled "Query {i+1}"
\* and carrying the i-th text of the window.
C7_LabelOrdering ==
    ("build" \in ran /\ K >= 1) =>
        /\ Len(content) >= 4
        /\ content[2] = code_string
        /\ Len(CandidateLines) = K
        /\ \A i \in 0..(K - 1) :
              IsLabelled(At(CandidateLines, i), i + 1, At(subset, i))

C7_Witness ==
    /\ "build" \in ran
    /\ K >= 10
    /\ At(subset, 8) # At(subset, 9)
    /\ IsLabelled(At(CandidateLines, 9), 10, At(subset, 9))

\* C8: for an in-range selection the absolute index is the least index of the
\* collection holding the selected text.
C8_FirstOccurrence ==
    (pc = "done" /\ query_number \in 1..K) =>
        /\ index_position \in 0..(Len(data) - 1)
        /\ At(data, index_position) = At(subset, query_number - 1)
        /\ \A i \in 0..(index_position - 1) : At(data, i) # At(subset, query_number - 1)

C8_Witness ==
    /\ pc = "done"
    /\ query_number \in 1..K
    /\ index_position < SUBSET_START

\* "Query", then one or more whitespace characters, then a digit at d
WsMatchAt(t, p, d) ==
    /\ p + 1 < d /\ d <= Len(t)
    /\ t[p] = "Query"
    /\ \A j \in (p + 1)..(d - 1) : t[j] \in Whitespace
    /\ t[d] \in Digits

WsMatches(t) == {pd \in (1..Len(t)) \X (1..Len(t)) : WsMatchAt(t, pd[1], pd[2])}

\* C9 (as claimed): the extractor takes the first "Query", any whitespace,
\* digits, so a tab, a newline or several spaces before the digits still
\* yield the integer.
C9_AnyWhitespace ==
    Extracted =>
        IF WsMatches(open_gen) = {} THEN query_number = None
        ELSE \E pd \in WsMatches(open_gen) :
                /\ \A qe \in WsMatches(open_gen) : pd[1] <= qe[1]
                /\ query_number = RunValue(open_gen, pd[2])

\* C9 (amended): the extractor takes the first case-sensitive "Query", exactly
\* one space character, digits, and returns the digit run in base 10; a tab, a
\* newline or several spaces between them, or another case of the literal,
\* yield None.
C9_SingleSpace ==
    Extracted =>
        IF MatchPositions(open_gen) = {} THEN query_number = None
        ELSE query_number = RunValue(open_gen, Least(MatchPositions(open_gen)) + 2)

C9_Witness ==
    /\ Extracted
    /\ open_gen = <<"x", "Query", "\t", "3">>
    /\ query_number = None

\* C10: whenever the window lookup did not raise, the search finds the
\* matched text in the collection, at or before every window position that
\* holds it, and the "not found" diagnostic is never printed.
C10_AlwaysFound ==
    Searched =>
        /\ index_position \in 0..(Len(data) - 1)
        /\ At(data, index_position) = matched_query_text
        /\ \A j \in 0..(K - 1) :
              At(subset, j) = matched_query_text => index_position <= SUBSET_START + j
        /\ \A i \in 1..Len(stdout) : stdout[i] # "not found"

C10_Witness ==
    /\ Searched
    /\ SUBSET_START >= 1
    /\ At(data, 0) # matched_query_text
    /\ index_position >= 1
    /\ stdout[Len(stdout)] = "full prompt"

====
